---- MODULE Spec2Model ----
(***************************************************************************)
(* Model of composer/distributed/fsdp2_utils.py: the FSDP2 weight-tying    *)
(* helpers, the optimizer parameter-group remapper and the default wrap    *)
(* policy.                                                                 *)
(***************************************************************************)
EXTENDS Integers, Sequences, FiniteSets, TLC

VARIABLES
    \* ---- update_optimizer_modules ----
    param_groups,        \* optimizer.param_groups: sequence of groups
    state,               \* optimizer.state: parameter -> per-parameter state
    orig_param_to_name,  \* dict: pre-sharding parameter -> name
    named_parameters,    \* dict(model.named_parameters(recurse=True))
    opt_raised,          \* how the call ended: "none" (not called), "returned", or the error
    unseen_params,       \* the list carried by the raised ValueError
    pre_param_groups,    \* optimizer.param_groups when the call was entered
    pre_state,           \* optimizer.state when the call was entered
    \* ---- the module graph of the weight-tying functions ----
    children,            \* module -> its child modules, in registration order
    direct_params,       \* module -> the parameters it owns itself
    \* ---- legalize_param_sharing_between_modules ----
    modules_to_shard,    \* the argument modules_to_shard
    legal_result,        \* "none" (not called), "returned", or "ValueError"
    legal_module,        \* the module named by the ValueError
    \* ---- get_standalone_and_tied_modules ----
    modules,             \* the argument modules
    tied_returned,       \* whether the call has returned
    standalone_modules,  \* the returned list (modules_to_shard in the code)
    modules_with_tied_params,  \* the returned set
    \* ---- check_param_tying ----
    named_params,        \* module -> its own parameters: name -> parameter object
    guard_pc,            \* "before", "in_block" (inside the with block) or "exited"
    sorted_pre_shard_groups,   \* the canonical groups taken on entry
    sorted_post_shard_groups,  \* the canonical groups taken by the finally clause
    block_raised,        \* whether the wrapped block ended by raising its own error
    guard_raised,        \* what leaves the with statement: "none", "BlockError", "RuntimeError"
    pre_named_params,    \* named_params when the block was entered
    \* ---- generate_default_policy ----
    current_is_parent,   \* whether current_module is parent_model
    fsdp_wrap_attr,      \* current_module._fsdp_wrap: whether set, and its value
    fsdp_wrap_fn,        \* parent_model.fsdp_wrap_fn: "absent", "not_callable" or "callable"
    wrap_fn_return,      \* what the predicate returns for current_module
    policy_called,       \* whether lambda_fn has run
    policy_ret,          \* the value lambda_fn returned
    policy_raised,       \* "none" or "ValueError"
    wrap_fn_called,      \* whether lambda_fn called the predicate
    deprecation_warned   \* whether lambda_fn issued the DeprecationWarning

optVars == <<param_groups, state, orig_param_to_name, named_parameters,
             opt_raised, unseen_params, pre_param_groups, pre_state>>

graphVars == <<children, direct_params>>
legalVars == <<modules_to_shard, legal_result, legal_module>>
tiedVars == <<modules, tied_returned, standalone_modules, modules_with_tied_params>>

guardVars == <<named_params, guard_pc, sorted_pre_shard_groups, sorted_post_shard_groups,
               block_raised, guard_raised, pre_named_params>>

policyVars == <<current_is_parent, fsdp_wrap_attr, fsdp_wrap_fn, wrap_fn_return,
                policy_called, policy_ret, policy_raised, wrap_fn_called, deprecation_warned>>

vars == <<optVars, graphVars, legalVars, tiedVars, guardVars, policyVars>>

None == "None"

\* Elements of a sequence
Range(s) == {s[i] : i \in DOMAIN s}

\* Sequences over S of length at most n, the empty one included
ListsUpTo(S, n) == UNION {[1..k -> S] : k \in 0..n}

\* Non-empty sequences over S of length at most n
SeqsUpTo(S, n) == UNION {[1..k -> S] : k \in 1..n}

\* Python dicts: functions on a finite key set
Dicts(K, V) == UNION {[S -> V] : S \in SUBSET K}

\* dict.get(key, None)
Get(d, k) == IF k \in DOMAIN d THEN d[k] ELSE None

(***************************************************************************)
(* Each function is exercised by a specification of its own; the variables *)
(* of the other functions then keep these values.                          *)
(***************************************************************************)
OptIdle ==
    /\ param_groups = <<>>
    /\ state = <<>>
    /\ orig_param_to_name = <<>>
    /\ named_parameters = <<>>
    /\ opt_raised = "none"
    /\ unseen_params = {}
    /\ pre_param_groups = <<>>
    /\ pre_state = <<>>

GraphIdle ==
    /\ children = <<>>
    /\ direct_params = <<>>

LegalIdle ==
    /\ modules_to_shard = <<>>
    /\ legal_result = "none"
    /\ legal_module = None

TiedIdle ==
    /\ modules = <<>>
    /\ tied_returned = FALSE
    /\ standalone_modules = <<>>
    /\ modules_with_tied_params = {}

\* Python values: booleans, integers, dicts (by their key set) and None
PyBool(b) == [type |-> "bool", int |-> IF b THEN 1 ELSE 0, keys |-> {}]
PyInt(n) == [type |-> "int", int |-> n, keys |-> {}]
PyDict(keys) == [type |-> "dict", int |-> 0, keys |-> keys]
PyNone == [type |-> "NoneType", int |-> 0, keys |-> {}]

PolicyIdle ==
    /\ current_is_parent = FALSE
    /\ fsdp_wrap_attr = [has |-> FALSE, value |-> PyNone]
    /\ fsdp_wrap_fn = "absent"
    /\ wrap_fn_return = PyNone
    /\ policy_called = FALSE
    /\ policy_ret = PyNone
    /\ policy_raised = "none"
    /\ wrap_fn_called = FALSE
    /\ deprecation_warned = FALSE

GuardIdle ==
    /\ named_params = <<>>
    /\ guard_pc = "before"
    /\ sorted_pre_shard_groups = <<>>
    /\ sorted_post_shard_groups = <<>>
    /\ block_raised = FALSE
    /\ guard_raised = "none"
    /\ pre_named_params = <<>>

(***************************************************************************)
(* The module graph read by the weight-tying functions                     *)
(***************************************************************************)
ModuleOrder == <<"root", "a", "b">>   \* the root model and two submodules
Modules == Range(ModuleOrder)
model == "root"
TParams == {"p1", "p2"}               \* nn.Parameter objects

MaxList == 3

\* The subsequence of seq made of its elements in S
Restrict(seq, S) == SelectSeq(seq, LAMBDA m : m \in S)

Position(m) == CHOOSE i \in DOMAIN ModuleOrder : ModuleOrder[i] = m

\* A module's children are registered after it: the graph has no cycle, and a
\* module may be the child of several modules
ChildLists(m) ==
    {Restrict(ModuleOrder, S) : S \in SUBSET {c \in Modules : Position(c) > Position(m)}}

\* module.parameters(): the parameters of the module and of its descendants
RECURSIVE Parameters(_, _, _)
Parameters(ch, dp, m) ==
    dp[m] \cup UNION {Parameters(ch, dp, ch[m][i]) : i \in DOMAIN ch[m]}

GraphInit ==
    /\ children \in {f \in [Modules -> UNION {ChildLists(m) : m \in Modules}] :
                        \A m \in Modules : f[m] \in ChildLists(m)}
    /\ direct_params \in [Modules -> SUBSET TParams]

(***************************************************************************)
(* legalize_param_sharing_between_modules                                  *)
(***************************************************************************)
\* modules_to_shard_params (lines 44-46)
ModulesToShardParams(ch, dp, to_shard) ==
    UNION {Parameters(ch, dp, to_shard[i]) : i \in DOMAIN to_shard}

\* _check_param_sharing (lines 52-68) and its loop over the children. The value
\* is the visited set and the module the ValueError names (None: no error).
RECURSIVE CheckParamSharing(_, _, _, _, _)
RECURSIVE CheckChildren(_, _, _, _, _)
RECURSIVE CheckParamSharingNoSkip(_, _, _, _, _)

\* Faulty variant: the walk descends into the modules to shard
CheckParamSharingNoSkip(ch, dp, to_shard, module, visited) ==
    IF module \in visited
    THEN [visited |-> visited, raised |-> None]
    ELSE IF dp[module] \cap ModulesToShardParams(ch, dp, to_shard) # {}
              /\ module \notin Range(to_shard)
         THEN [visited |-> visited \cup {module}, raised |-> module]
         ELSE CheckChildren(ch, dp, to_shard, ch[module], visited \cup {module})

CheckParamSharing(ch, dp, to_shard, module, visited) ==
    IF module \in Range(to_shard) \/ module \in visited
    THEN [visited |-> visited, raised |-> None]
    ELSE IF dp[module] \cap ModulesToShardParams(ch, dp, to_shard) # {}
         THEN [visited |-> visited \cup {module}, raised |-> module]
         ELSE CheckChildren(ch, dp, to_shard, ch[module], visited \cup {module})

CheckChildren(ch, dp, to_shard, childs, visited) ==
    IF childs = <<>>
    THEN [visited |-> visited, raised |-> None]
    ELSE LET r == CheckParamSharing(ch, dp, to_shard, Head(childs), visited)
         IN IF r.raised # None THEN r
            ELSE CheckChildren(ch, dp, to_shard, Tail(childs), r.visited)

LegalInit ==
    /\ OptIdle /\ TiedIdle /\ GuardIdle /\ PolicyIdle
    /\ GraphInit
    /\ modules_to_shard \in ListsUpTo(Modules, MaxList)
    /\ legal_result = "none"
    /\ legal_module = None

\* The call, started from the root model (line 71)
legalize_param_sharing_between_modules ==
    /\ legal_result = "none"
    /\ LET r == CheckParamSharing(children, direct_params, modules_to_shard, model, {})
       IN /\ legal_result' = IF r.raised = None THEN "returned" ELSE "ValueError"
          /\ legal_module' = r.raised
    /\ UNCHANGED <<modules_to_shard, graphVars, optVars, tiedVars, guardVars, policyVars>>

LegalNext == legalize_param_sharing_between_modules

SpecLegal == LegalInit /\ [][LegalNext]_vars

(***************************************************************************)
(* get_standalone_and_tied_modules                                         *)
(***************************************************************************)
\* The first loop (lines 88-96): tied_params, with seen_params updated once
\* per module
RECURSIVE TiedParams(_, _, _, _, _)
TiedParams(ch, dp, mods, seen_params, tied_params) ==
    IF mods = <<>> THEN tied_params
    ELSE LET ps == Parameters(ch, dp, Head(mods))
         IN TiedParams(ch, dp, Tail(mods), seen_params \cup ps,
                       tied_params \cup (ps \cap seen_params))

\* Faulty variant: a module is marked where the repeat is met, i.e. only a module
\* that comes after one it shares a parameter with
ModulesWithTiedParamsLaterOnly(ch, dp, mods) ==
    {mods[j] : j \in {k \in DOMAIN mods :
        \E i \in 1..(k - 1) :
            Parameters(ch, dp, mods[i]) \cap Parameters(ch, dp, mods[k]) # {}}}

\* The second loop (lines 99-104): modules_with_tied_params
ModulesWithTiedParams(ch, dp, mods) ==
    {m \in Range(mods) :
        Parameters(ch, dp, m) \cap TiedParams(ch, dp, mods, {}, {}) # {}}

\* The returned list modules_to_shard (lines 107-110)
StandaloneModules(ch, dp, mods) ==
    SelectSeq(mods, LAMBDA m : /\ m \notin ModulesWithTiedParams(ch, dp, mods)
                               /\ Parameters(ch, dp, m) # {})

TiedInit ==
    /\ OptIdle /\ LegalIdle /\ GuardIdle /\ PolicyIdle
    /\ GraphInit
    /\ modules \in ListsUpTo(Modules, MaxList)
    /\ tied_returned = FALSE
    /\ standalone_modules = <<>>
    /\ modules_with_tied_params = {}

get_standalone_and_tied_modules ==
    /\ ~tied_returned
    /\ tied_returned' = TRUE
    /\ standalone_modules' = StandaloneModules(children, direct_params, modules)
    /\ modules_with_tied_params' = ModulesWithTiedParams(children, direct_params, modules)
    /\ UNCHANGED <<modules, graphVars, optVars, legalVars, guardVars, policyVars>>

TiedNext == get_standalone_and_tied_modules

SpecTied == TiedInit /\ [][TiedNext]_vars

(***************************************************************************)
(* _get_param_tying_groups and check_param_tying                           *)
(***************************************************************************)
GParams == {"p1", "p2"}               \* nn.Parameter objects of the guarded model

\* The attribute names under which a module may hold a parameter, in
\* registration order: two on the root model, one on each submodule
ParamNameOrder(m) == IF m = model THEN <<"w", "v">> ELSE <<"w">>

\* Strings are sequences of characters; the characters in code-point order
CharOrder == <<".", "a", "b", "v", "w">>
CharPos(c) == CHOOSE i \in DOMAIN CharOrder : CharOrder[i] = c

\* The name under which a child module is registered
ChildName(m) == <<m>>

\* f'{prefix}.{name}' if prefix else name (lines 131, 138)
Fqn(prefix, name) == IF prefix # <<>> THEN prefix \o <<".">> \o name ELSE name

\* str.__lt__: the first differing character decides, a proper prefix is smaller
RECURSIVE StrLess(_, _)
StrLess(x, y) ==
    IF y = <<>> THEN FALSE
    ELSE IF x = <<>> THEN TRUE
    ELSE IF Head(x) # Head(y) THEN CharPos(Head(x)) < CharPos(Head(y))
    ELSE StrLess(Tail(x), Tail(y))

\* list.__lt__ on lists of strings
RECURSIVE ListLess(_, _)
ListLess(x, y) ==
    IF y = <<>> THEN FALSE
    ELSE IF x = <<>> THEN TRUE
    ELSE IF Head(x) # Head(y) THEN StrLess(Head(x), Head(y))
    ELSE ListLess(Tail(x), Tail(y))

\* sorted(group): the strings of a set in increasing order
RECURSIVE SortedStrings(_)
SortedStrings(S) ==
    IF S = {} THEN <<>>
    ELSE LET least == CHOOSE x \in S : \A y \in S \ {x} : StrLess(x, y)
         IN <<least>> \o SortedStrings(S \ {least})

\* sorted(list of lists): insertion of each element at its place
RECURSIVE InsertList(_, _)
InsertList(sorted, x) ==
    IF sorted = <<>> THEN <<x>>
    ELSE IF ListLess(x, Head(sorted)) THEN <<x>> \o sorted
    ELSE <<Head(sorted)>> \o InsertList(Tail(sorted), x)

RECURSIVE SortedLists(_)
SortedLists(lists) ==
    IF lists = <<>> THEN <<>>
    ELSE InsertList(SortedLists(Tail(lists)), Head(lists))

\* sorted([sorted(group) for group in groups]) (lines 154, 160)
SortedGroups(groups) == SortedLists([i \in DOMAIN groups |-> SortedStrings(groups[i])])

\* module.named_parameters(recurse=False): the module's own (name, parameter)
\* pairs in registration order, a parameter object already yielded is skipped
RECURSIVE OwnNamedParameters(_, _, _, _)
OwnNamedParameters(np, module, names, memo) ==
    IF names = <<>> THEN <<>>
    ELSE LET name == Head(names)
             param == Get(np[module], name)
         IN IF param = None \/ param \in memo
            THEN OwnNamedParameters(np, module, Tail(names), memo)
            ELSE <<[name |-> <<name>>, param |-> param]>>
                 \o OwnNamedParameters(np, module, Tail(names), memo \cup {param})

\* The loop of lines 130-134 over one module's own parameters. The dict
\* param_object_to_fqns is its keys in insertion order and the set of each key.
RECURSIVE AddOwnParams(_, _, _)
AddOwnParams(pairs, prefix, d) ==
    IF pairs = <<>> THEN d
    ELSE LET param == Head(pairs).param
             fqn == Fqn(prefix, Head(pairs).name)
             d1 == IF param \in Range(d.keys)
                   THEN d
                   ELSE [keys |-> Append(d.keys, param),
                         fqns |-> [q \in Range(d.keys) \cup {param} |->
                                      IF q = param THEN {} ELSE d.fqns[q]]]
         IN AddOwnParams(Tail(pairs), prefix,
                         [d1 EXCEPT !.fqns[param] = @ \cup {fqn}])

\* _recursive_get_params (lines 128-139) and its loop over named_children()
RECURSIVE RecursiveGetParams(_, _, _, _, _)
RECURSIVE RecursiveGetChildren(_, _, _, _, _)
RecursiveGetParams(ch, np, module, prefix, d) ==
    RecursiveGetChildren(ch, np, ch[module], prefix,
        AddOwnParams(OwnNamedParameters(np, module, ParamNameOrder(module), {}), prefix, d))

RecursiveGetChildren(ch, np, childs, prefix, d) ==
    IF childs = <<>> THEN d
    ELSE RecursiveGetChildren(ch, np, Tail(childs), prefix,
            RecursiveGetParams(ch, np, Head(childs), Fqn(prefix, ChildName(Head(childs))), d))

\* _get_param_tying_groups (lines 115-144): list(param_object_to_fqns.values())
GetParamTyingGroups(ch, np) ==
    LET d == RecursiveGetParams(ch, np, model, <<>>, [keys |-> <<>>, fqns |-> <<>>])
    IN [i \in DOMAIN d.keys |-> d.fqns[d.keys[i]]]

\* Faulty variant: the comparison is skipped when the block raised (no finally)
GuardOutcomeNoFinally(pre_groups, post_groups, raised) ==
    IF raised THEN "BlockError"
    ELSE IF pre_groups # post_groups THEN "RuntimeError" ELSE "none"

\* What leaves the with statement (lines 156-167): the finally clause compares
\* on every exit; its RuntimeError replaces an error of the block
GuardOutcome(pre_groups, post_groups, raised) ==
    IF pre_groups # post_groups THEN "RuntimeError"
    ELSE IF raised THEN "BlockError" ELSE "none"

NamedParamDicts(m) == Dicts(Range(ParamNameOrder(m)), GParams)

GuardInit ==
    /\ OptIdle /\ LegalIdle /\ TiedIdle /\ PolicyIdle
    /\ children \in {f \in [Modules -> UNION {ChildLists(m) : m \in Modules}] :
                        \A m \in Modules : f[m] \in ChildLists(m)}
    /\ direct_params = <<>>
    /\ named_params \in {f \in [Modules -> UNION {NamedParamDicts(m) : m \in Modules}] :
                            \A m \in Modules : f[m] \in NamedParamDicts(m)}
    /\ guard_pc = "before"
    /\ sorted_pre_shard_groups = <<>>
    /\ sorted_post_shard_groups = <<>>
    /\ block_raised = FALSE
    /\ guard_raised = "none"
    /\ pre_named_params = <<>>

\* Entering the with statement (lines 153-157)
GuardEnter ==
    /\ guard_pc = "before"
    /\ sorted_pre_shard_groups' = SortedGroups(GetParamTyingGroups(children, named_params))
    /\ pre_named_params' = named_params
    /\ guard_pc' = "in_block"
    /\ UNCHANGED <<named_params, sorted_post_shard_groups, block_raised, guard_raised>>
    /\ UNCHANGED <<optVars, graphVars, legalVars, tiedVars, policyVars>>

\* The wrapped block binds a parameter object to an attribute of a module
BlockSetParameter ==
    /\ guard_pc = "in_block"
    /\ \E m \in Modules : \E name \in Range(ParamNameOrder(m)), param \in GParams :
          /\ Get(named_params[m], name) # param
          /\ named_params' = [named_params EXCEPT ![m] =
                [k \in DOMAIN named_params[m] \cup {name} |->
                    IF k = name THEN param ELSE named_params[m][k]]]
    /\ UNCHANGED <<guard_pc, sorted_pre_shard_groups, sorted_post_shard_groups,
                   block_raised, guard_raised, pre_named_params>>
    /\ UNCHANGED <<optVars, graphVars, legalVars, tiedVars, policyVars>>

\* The wrapped block deletes a parameter attribute of a module
BlockDelParameter ==
    /\ guard_pc = "in_block"
    /\ \E m \in Modules : \E name \in Range(ParamNameOrder(m)) :
          /\ name \in DOMAIN named_params[m]
          /\ named_params' = [named_params EXCEPT ![m] =
                [k \in DOMAIN named_params[m] \ {name} |-> named_params[m][k]]]
    /\ UNCHANGED <<guard_pc, sorted_pre_shard_groups, sorted_post_shard_groups,
                   block_raised, guard_raised, pre_named_params>>
    /\ UNCHANGED <<optVars, graphVars, legalVars, tiedVars, policyVars>>

\* The finally clause (lines 158-167), run as the block is left
GuardFinally(raised) ==
    /\ guard_pc = "in_block"
    /\ LET post == SortedGroups(GetParamTyingGroups(children, named_params))
       IN /\ sorted_post_shard_groups' = post
          /\ guard_raised' = GuardOutcome(sorted_pre_shard_groups, post, raised)
    /\ block_raised' = raised
    /\ guard_pc' = "exited"
    /\ UNCHANGED <<named_params, sorted_pre_shard_groups, pre_named_params>>
    /\ UNCHANGED <<optVars, graphVars, legalVars, tiedVars, policyVars>>

\* The block runs to its end
BlockReturns == GuardFinally(FALSE)

\* The block raises an error of its own
BlockRaises == GuardFinally(TRUE)

GuardNext ==
    \/ GuardEnter
    \/ BlockSetParameter
    \/ BlockDelParameter
    \/ BlockReturns
    \/ BlockRaises

SpecGuard == GuardInit /\ [][GuardNext]_vars

(***************************************************************************)
(* generate_default_policy                                                 *)
(***************************************************************************)
\* bool(value)
Truthy(value) == IF value.type = "dict" THEN value.keys # {} ELSE value.int # 0

\* set(FSDP2Config.__annotations__.keys()) (line 280): the recognised options
ValidKeys == {"reshard_after_forward", "mixed_precision_policy"}

\* Keys a predicate may return, one of them not an FSDP2Config option
ReturnedKeys == ValidKeys \cup {"sharding_strategy"}

\* Faulty variant: the predicate of the root model is asked before the legacy flag
LambdaFnPredicateFirst(is_parent, attr, fn, fn_return) ==
    IF fn = "callable"
    THEN IF is_parent
         THEN [ret |-> PyBool(TRUE), raised |-> "none", called |-> FALSE, warned |-> FALSE]
         ELSE IF fn_return.type = "dict" /\ ~(fn_return.keys \subseteq ValidKeys)
              THEN [ret |-> PyNone, raised |-> "ValueError", called |-> TRUE, warned |-> FALSE]
              ELSE [ret |-> fn_return, raised |-> "none", called |-> TRUE, warned |-> FALSE]
    ELSE IF attr.has
         THEN [ret |-> PyBool(Truthy(attr.value)), raised |-> "none", called |-> FALSE,
               warned |-> TRUE]
         ELSE [ret |-> PyBool(is_parent), raised |-> "none", called |-> FALSE, warned |-> FALSE]

\* lambda_fn (lines 262-287)
LambdaFn(is_parent, attr, fn, fn_return) ==
    IF attr.has                                                   \* lines 264-270
    THEN [ret |-> PyBool(Truthy(attr.value)), raised |-> "none", called |-> FALSE,
          warned |-> TRUE]
    ELSE IF fn = "callable"                                       \* line 271
         THEN IF is_parent                                        \* lines 275-276
              THEN [ret |-> PyBool(TRUE), raised |-> "none", called |-> FALSE, warned |-> FALSE]
              ELSE IF fn_return.type = "dict" /\ ~(fn_return.keys \subseteq ValidKeys)
                   THEN [ret |-> PyNone, raised |-> "ValueError", called |-> TRUE,
                         warned |-> FALSE]                        \* lines 278-282
                   ELSE [ret |-> fn_return, raised |-> "none", called |-> TRUE,
                         warned |-> FALSE]
         ELSE IF is_parent                                        \* lines 283-286
              THEN [ret |-> PyBool(TRUE), raised |-> "none", called |-> FALSE, warned |-> FALSE]
              ELSE [ret |-> PyBool(FALSE), raised |-> "none", called |-> FALSE, warned |-> FALSE]

PolicyInit ==
    /\ OptIdle /\ GraphIdle /\ LegalIdle /\ TiedIdle /\ GuardIdle
    /\ current_is_parent \in BOOLEAN
    /\ fsdp_wrap_attr \in
          {[has |-> FALSE, value |-> PyNone]}
          \cup [has : {TRUE}, value : {PyBool(TRUE), PyBool(FALSE), PyInt(0), PyInt(2), PyNone}]
    /\ fsdp_wrap_fn \in {"absent", "not_callable", "callable"}
    /\ wrap_fn_return \in {PyBool(TRUE), PyBool(FALSE)} \cup {PyDict(K) : K \in SUBSET ReturnedKeys}
    /\ policy_called = FALSE
    /\ policy_ret = PyNone
    /\ policy_raised = "none"
    /\ wrap_fn_called = FALSE
    /\ deprecation_warned = FALSE

\* The policy is asked about current_module
lambda_fn ==
    /\ ~policy_called
    /\ policy_called' = TRUE
    /\ LET r == LambdaFn(current_is_parent, fsdp_wrap_attr, fsdp_wrap_fn, wrap_fn_return)
       IN /\ policy_ret' = r.ret
          /\ policy_raised' = r.raised
          /\ wrap_fn_called' = r.called
          /\ deprecation_warned' = r.warned
    /\ UNCHANGED <<current_is_parent, fsdp_wrap_attr, fsdp_wrap_fn, wrap_fn_return>>
    /\ UNCHANGED <<optVars, graphVars, legalVars, tiedVars, guardVars>>

PolicyNext == lambda_fn

SpecPolicy == PolicyInit /\ [][PolicyNext]_vars

(***************************************************************************)
(* update_optimizer_modules                                                *)
(***************************************************************************)
OldParams == {"o1", "o2", "o3"}     \* parameter objects before sharding
NewParams == {"q1", "q2"}           \* parameter objects of the sharded model
ParamNames == {"n1", "n2"}
LrValues == {1, 2}                  \* values of a group's hyperparameter

MaxGroups == 2
MaxGroupLen == 2

\* All parameters referenced by a list of groups
GroupParams(groups) == UNION {Range(groups[i].params) : i \in DOMAIN groups}

\* Optimizer.add_param_group: a parameter already held by another group is rejected
AddParamGroup(groups, group) ==
    IF GroupParams(groups) \cap Range(group.params) # {}
    THEN [ok |-> FALSE, groups |-> groups]
    ELSE [ok |-> TRUE, groups |-> Append(groups, group)]

\* Faulty variant: the scan stops at the first failure
RECURSIVE GroupUnseenFirstOnly(_, _, _, _)
GroupUnseenFirstOnly(params, orig, named, acc) ==
    IF params = <<>> \/ acc # {} THEN acc
    ELSE LET param == Head(params)
             param_name == Get(orig, param)
             found == IF param_name = None
                      THEN {<<"optimizer.param_id", param>>}
                      ELSE IF param_name \notin DOMAIN named
                           THEN {<<"model.param_name", param_name>>}
                           ELSE {}
         IN GroupUnseenFirstOnly(Tail(params), orig, named, acc \cup found)

\* The loop over one group's params (lines 205-218): failures found so far
RECURSIVE GroupUnseen(_, _, _, _)
GroupUnseen(params, orig, named, acc) ==
    IF params = <<>> THEN acc
    ELSE LET param == Head(params)
             param_name == Get(orig, param)
             found == IF param_name = None
                      THEN {<<"optimizer.param_id", param>>}
                      ELSE IF param_name \notin DOMAIN named
                           THEN {<<"model.param_name", param_name>>}
                           ELSE {}
         IN GroupUnseen(Tail(params), orig, named, acc \cup found)

\* The loop over the groups (lines 203-218): the set unseen_params
RECURSIVE UnseenParams(_, _, _, _)
UnseenParams(groups, orig, named, acc) ==
    IF groups = <<>> THEN acc
    ELSE UnseenParams(Tail(groups), orig, named,
                      GroupUnseen(Head(groups).params, orig, named, acc))

\* old_to_new_param (lines 202-218): every resolvable reference of every group
OldToNewParam(groups, orig, named) ==
    [param \in {p \in GroupParams(groups) :
                    Get(orig, p) # None /\ Get(orig, p) \in DOMAIN named}
        |-> named[orig[param]]]

\* Faulty variant: the hyperparameters of the group are not carried over
NewGroupDefaults(group, old_to_new) ==
    [k \in DOMAIN group |->
        IF k = "params"
        THEN [j \in DOMAIN group.params |-> old_to_new[group.params[j]]]
        ELSE 1]

\* One rebuilt group (lines 233-235)
NewGroup(group, old_to_new) ==
    [k \in DOMAIN group |->
        IF k = "params"
        THEN [j \in DOMAIN group.params |-> old_to_new[group.params[j]]]
        ELSE group[k]]

\* new_param_groups (lines 231-236)
NewParamGroups(groups, old_to_new) ==
    [i \in DOMAIN groups |-> NewGroup(groups[i], old_to_new)]

\* param_groups.clear() and the add_param_group loop (lines 239-241): an
\* add_param_group that raises ends the loop with the groups added so far
RECURSIVE AddAll(_, _)
AddAll(cur, pending) ==
    IF pending = <<>> THEN [ok |-> TRUE, groups |-> cur]
    ELSE LET r == AddParamGroup(cur, Head(pending))
         IN IF r.ok THEN AddAll(r.groups, Tail(pending)) ELSE r

\* Faulty variant: the groups are cleared before the references are validated
UpdateResultClearFirst(groups, st, orig, named) ==
    LET unseen == UnseenParams(groups, orig, named, {})
    IN IF unseen # {}
       THEN [param_groups |-> <<>>, state |-> <<>>, raised |-> "ValueError",
             unseen |-> unseen]
       ELSE LET added == AddAll(<<>>, NewParamGroups(groups, OldToNewParam(groups, orig, named)))
            IN [param_groups |-> added.groups, state |-> <<>>,
                raised |-> IF added.ok THEN "returned" ELSE "add_param_group",
                unseen |-> {}]

\* The whole call (lines 188-241): what it leaves in the optimizer and how it ends
UpdateResult(groups, st, orig, named) ==
    LET cleared == IF DOMAIN st # {} THEN <<>> ELSE st      \* lines 190-195
        unseen == UnseenParams(groups, orig, named, {})
    IN IF unseen # {}                                       \* lines 221-228
       THEN [param_groups |-> groups, state |-> cleared, raised |-> "ValueError",
             unseen |-> unseen]
       ELSE LET added == AddAll(<<>>, NewParamGroups(groups, OldToNewParam(groups, orig, named)))
            IN [param_groups |-> added.groups, state |-> cleared,
                raised |-> IF added.ok THEN "returned" ELSE "add_param_group",
                unseen |-> {}]

Groups == [params : SeqsUpTo(OldParams, MaxGroupLen), lr : LrValues]

\* An optimizer holds each parameter in at most one group
GroupLists ==
    {gs \in SeqsUpTo(Groups, MaxGroups) :
        \A i, j \in DOMAIN gs : i # j => Range(gs[i].params) \cap Range(gs[j].params) = {}}

\* named_parameters() yields each parameter object once
NamedParameterDicts ==
    {d \in Dicts(ParamNames, NewParams) :
        \A a, b \in DOMAIN d : a # b => d[a] # d[b]}

OptInit ==
    /\ GraphIdle /\ LegalIdle /\ TiedIdle /\ GuardIdle /\ PolicyIdle
    /\ param_groups \in GroupLists
    /\ state = <<>>
    /\ orig_param_to_name \in Dicts(OldParams, ParamNames)
    /\ named_parameters \in NamedParameterDicts
    /\ opt_raised = "none"
    /\ unseen_params = {}
    /\ pre_param_groups = <<>>
    /\ pre_state = <<>>

\* optimizer.step() before the call: every parameter gets per-parameter state
OptimizerStep ==
    /\ opt_raised = "none"
    /\ DOMAIN state = {}
    /\ state' = [p \in GroupParams(param_groups) |-> "momentum"]
    /\ UNCHANGED <<param_groups, orig_param_to_name, named_parameters,
                   opt_raised, unseen_params, pre_param_groups, pre_state>>
    /\ UNCHANGED <<graphVars, legalVars, tiedVars, guardVars, policyVars>>

update_optimizer_modules ==
    /\ opt_raised = "none"
    /\ LET r == UpdateResult(param_groups, state, orig_param_to_name, named_parameters)
       IN /\ param_groups' = r.param_groups
          /\ state' = r.state
          /\ opt_raised' = r.raised
          /\ unseen_params' = r.unseen
    /\ pre_param_groups' = param_groups
    /\ pre_state' = state
    /\ UNCHANGED <<orig_param_to_name, named_parameters>>
    /\ UNCHANGED <<graphVars, legalVars, tiedVars, guardVars, policyVars>>

OptNext == OptimizerStep \/ update_optimizer_modules

SpecOpt == OptInit /\ [][OptNext]_vars

(***************************************************************************)
(* Properties of update_optimizer_modules                                  *)
(***************************************************************************)
OptCalled == opt_raised # "none"

\* A reference resolves when it is a key of orig_param_to_name and its name
\* is one of the sharded model's named parameters
Resolves(p) ==
    /\ p \in DOMAIN orig_param_to_name
    /\ orig_param_to_name[p] \in DOMAIN named_parameters

AllResolve == \A p \in GroupParams(pre_param_groups) : Resolves(p)

\* The complete remapped collection: same groups in the same order, each
\* reference replaced in place by the sharded parameter of its name, every
\* other field kept
IsRemapped(groups) ==
    /\ Len(groups) = Len(pre_param_groups)
    /\ \A i \in DOMAIN pre_param_groups :
          /\ DOMAIN groups[i] = DOMAIN pre_param_groups[i]
          /\ Len(groups[i].params) = Len(pre_param_groups[i].params)
          /\ \A j \in DOMAIN pre_param_groups[i].params :
                groups[i].params[j] =
                    named_parameters[orig_param_to_name[pre_param_groups[i].params[j]]]
          /\ \A k \in DOMAIN pre_param_groups[i] \ {"params"} :
                groups[i][k] = pre_param_groups[i][k]

\* Two groups whose references resolve to the same sharded parameter
GroupsCollide ==
    \E i, j \in DOMAIN pre_param_groups :
        /\ i # j
        /\ \E a \in Range(pre_param_groups[i].params), b \in Range(pre_param_groups[j].params) :
              named_parameters[orig_param_to_name[a]] = named_parameters[orig_param_to_name[b]]

\* C1: if some reference of some group does not resolve, the call raises the
\* ValueError and optimizer.param_groups is exactly what it was before the call.
C1_FailureKeepsParamGroups ==
    (OptCalled /\ ~AllResolve) =>
        (opt_raised = "ValueError" /\ param_groups = pre_param_groups)

C1_Witness ==
    /\ opt_raised = "ValueError"
    /\ Len(pre_param_groups) = 2
    /\ \E p \in GroupParams(pre_param_groups) : Resolves(p)
    /\ pre_param_groups[1].lr # pre_param_groups[2].lr

\* C2: whenever the call raises the reference-resolution failure, the
\* per-parameter state store equals the state store before the call.
C2_FailureKeepsState ==
    opt_raised = "ValueError" => state = pre_state

\* C3: however the call ends, optimizer.param_groups is either the complete
\* original collection or the complete remapped collection.
C3_AllOrNothing ==
    OptCalled =>
        \/ param_groups = pre_param_groups
        \/ (AllResolve /\ IsRemapped(param_groups))

\* C4 as stated: when every reference of every group resolves, the optimizer
\* holds the remapped groups after the call.
C4_ResolvedImpliesRemapped ==
    (OptCalled /\ AllResolve) => IsRemapped(param_groups)

\* C4 amended: when every reference resolves and no two groups resolve to a
\* common sharded parameter, the call returns and the optimizer holds the
\* remapped groups (same count and order, references replaced in place, other
\* fields kept); and the call returns only in that case.
C4_ReturnedIsRemapped ==
    OptCalled =>
        /\ (AllResolve /\ ~GroupsCollide) =>
              (opt_raised = "returned" /\ IsRemapped(param_groups))
        /\ opt_raised = "returned" => (AllResolve /\ ~GroupsCollide)

C4_Witness ==
    /\ opt_raised = "returned"
    /\ Len(pre_param_groups) = 2
    /\ pre_param_groups[1].lr = 2
    /\ pre_param_groups[2].lr = 1
    /\ param_groups[1].params = <<"q2", "q2">>
    /\ param_groups[2].params = <<"q1">>
    /\ pre_param_groups[1].params = <<"o1", "o3">>

\* C5: the raised error lists every unresolvable reference of every group: one
\* absent from orig_param_to_name under the tag optimizer.param_id, one whose
\* name is absent from the sharded model under the tag model.param_name, and
\* nothing else.
C5_ErrorListsEveryFailure ==
    opt_raised = "ValueError" =>
        unseen_params =
            {<<"optimizer.param_id", p>> :
                p \in {q \in GroupParams(pre_param_groups) : q \notin DOMAIN orig_param_to_name}}
            \cup
            {<<"model.param_name", orig_param_to_name[p]>> :
                p \in {q \in GroupParams(pre_param_groups) :
                          /\ q \in DOMAIN orig_param_to_name
                          /\ orig_param_to_name[q] \notin DOMAIN named_parameters}}

C5_Witness ==
    /\ opt_raised = "ValueError"
    /\ Len(pre_param_groups) = 2
    /\ \E p \in GroupParams(pre_param_groups) : Resolves(p)
    /\ \E p \in Range(pre_param_groups[1].params) : <<"model.param_name", Get(orig_param_to_name, p)>> \in unseen_params
    /\ \E p \in Range(pre_param_groups[2].params) : <<"optimizer.param_id", p>> \in unseen_params

(***************************************************************************)
(* Properties of legalize_param_sharing_between_modules                    *)
(***************************************************************************)
LegalCalled == legal_result # "none"

Designated == Range(modules_to_shard)

\* The modules of the graph rooted at model
RECURSIVE Descendants(_)
Descendants(m) == {m} \cup UNION {Descendants(children[m][i]) : i \in DOMAIN children[m]}

GraphModules == Descendants(model)

\* Reachability of a parameter from a module: through the module itself or
\* through any of its descendants
Reaches(m, r) == \E d \in Descendants(m) : r \in direct_params[d]

\* The parameters reachable from a designated module
DesignatedParams == {r \in TParams : \E m1 \in Designated : Reaches(m1, r)}

\* Module m2 is outside the designated list and reaches a parameter that a
\* designated module reaches too
SharesWithDesignated(m2) ==
    /\ m2 \notin Designated
    /\ \E r \in DesignatedParams : Reaches(m2, r)

\* The modules reachable from the root along a path that holds no designated
\* module (the root and the module itself included)
RECURSIVE Undesignated(_)
Undesignated(m) ==
    IF m \in Designated THEN {}
    ELSE {m} \cup UNION {Undesignated(children[m][i]) : i \in DOMAIN children[m]}

\* The modules the walk can flag: outside every designated subtree, and
\* owning directly a parameter that a designated module reaches
Offenders == {m \in Undesignated(model) : direct_params[m] \cap DesignatedParams # {}}

\* C6 as stated: the call returns silently when no module of the graph
\* outside the designated list shares a parameter with a designated module,
\* and otherwise raises a ValueError naming such a module.
C6_RaisesOnAnySharing ==
    LegalCalled =>
        IF \E m2 \in GraphModules : SharesWithDesignated(m2)
        THEN legal_result = "ValueError" /\ SharesWithDesignated(legal_module)
        ELSE legal_result = "returned"

\* C6 amended: the call raises the ValueError exactly when some module that is
\* reachable from the root without passing through a designated module owns
\* directly a parameter that a designated module reaches, and the error names
\* such a module; otherwise it returns silently. In particular it returns
\* silently whenever no module outside the list shares a parameter with one
\* in it.
C6_RaisesOnDirectSharingOutsideDesignated ==
    LegalCalled =>
        /\ IF Offenders # {}
           THEN legal_result = "ValueError" /\ legal_module \in Offenders
           ELSE legal_result = "returned" /\ legal_module = None
        /\ (~ \E m2 \in GraphModules : SharesWithDesignated(m2)) => legal_result = "returned"

\* The scenario of the tied pair: a and b own the same parameter, a is
\* designated, and the error names b
C6_Witness ==
    /\ legal_result = "ValueError"
    /\ modules_to_shard = <<"a">>
    /\ children["root"] = <<"a", "b">>
    /\ direct_params["a"] = {"p1"}
    /\ direct_params["b"] = {"p1"}
    /\ direct_params["root"] = {"p2"}
    /\ legal_module = "b"

(***************************************************************************)
(* Properties of get_standalone_and_tied_modules                           *)
(***************************************************************************)
Params(m) == Parameters(children, direct_params, m)

\* C7: every standalone module owns a parameter and shares none with any
\* other module of the list; every tied module shares a parameter with some
\* other, distinct module of the list; modules without parameters are in
\* neither output; the three kinds are disjoint and cover the list.
C7_Partition ==
    tied_returned =>
        LET standalone == Range(standalone_modules)
            tied == modules_with_tied_params
            empty == {m \in Range(modules) : Params(m) = {}}
        IN /\ \A m \in standalone :
                 /\ Params(m) # {}
                 /\ \A o \in Range(modules) \ {m} : Params(m) \cap Params(o) = {}
           /\ \A m \in tied :
                 \E o \in Range(modules) \ {m} : Params(m) \cap Params(o) # {}
           /\ empty \cap (standalone \cup tied) = {}
           /\ standalone \cap tied = {}
           /\ standalone \cup tied \cup empty = Range(modules)

\* The permutations of a list
Reorderings(seq) ==
    {[i \in DOMAIN seq |-> seq[f[i]]] :
        f \in {g \in [DOMAIN seq -> DOMAIN seq] : \A a, b \in DOMAIN seq : a # b => g[a] # g[b]}}

\* C10: the result does not depend on the order of the list: every
\* permutation yields the same tied set and the same standalone modules, the
\* standalone list is the input list without the tied and the parameterless
\* modules, and two list entries that share a parameter are both tied,
\* whichever comes first.
C10_OrderIndependent ==
    tied_returned =>
        /\ \A perm \in Reorderings(modules) :
              /\ ModulesWithTiedParams(children, direct_params, perm) = modules_with_tied_params
              /\ Range(StandaloneModules(children, direct_params, perm)) = Range(standalone_modules)
              /\ StandaloneModules(children, direct_params, perm) =
                    Restrict(perm, {m \in Range(perm) :
                                      m \notin modules_with_tied_params /\ Params(m) # {}})
        /\ \A i, j \in DOMAIN modules :
              (i < j /\ Params(modules[i]) \cap Params(modules[j]) # {}) =>
                  {modules[i], modules[j]} \subseteq modules_with_tied_params

\* An earlier module tied by a later one, with a standalone module between
C10_Witness ==
    /\ tied_returned
    /\ modules = <<"a", "root", "b">>
    /\ children["root"] = <<>>
    /\ Params("a") = {"p1"}
    /\ Params("b") = {"p1"}
    /\ Params("root") = {"p2"}
    /\ modules_with_tied_params = {"a", "b"}
    /\ standalone_modules = <<"root">>

(***************************************************************************)
(* Properties of check_param_tying                                         *)
(***************************************************************************)
\* The tying groups of a model as a collection compared without order: the
\* FQN sets that _get_param_tying_groups computes, one per parameter object
TyingGroups(np) == Range(GetParamTyingGroups(children, np))

GroupsChanged == TyingGroups(pre_named_params) # TyingGroups(named_params)

C8_WitnessSameGroups ==
    /\ guard_pc = "exited"
    /\ block_raised
    /\ guard_raised = "BlockError"
    /\ named_params # pre_named_params
    /\ Cardinality(TyingGroups(named_params)) = 2

(***************************************************************************)
(* Properties of generate_default_policy                                   *)
(***************************************************************************)
\* C9: (a) a module with the legacy _fsdp_wrap flag gets the flag's truth
\* value, whatever the module and whatever the root model's predicate; (b)
\* otherwise, with a callable fsdp_wrap_fn on the root model, the root model is
\* wrapped without the predicate being asked and any other module gets the
\* predicate's return value, a returned mapping with an unrecognised key
\* raising a ValueError; (c) otherwise the root model is wrapped and no other
\* module is.
C9_PolicyPrecedence ==
    policy_called =>
        IF fsdp_wrap_attr.has
        THEN /\ policy_raised = "none"
             /\ policy_ret = PyBool(Truthy(fsdp_wrap_attr.value))
             /\ ~wrap_fn_called
        ELSE IF fsdp_wrap_fn = "callable"
             THEN IF current_is_parent
                  THEN policy_raised = "none" /\ policy_ret = PyBool(TRUE) /\ ~wrap_fn_called
                  ELSE /\ wrap_fn_called
                       /\ IF wrap_fn_return.type = "dict"
                             /\ \E k \in wrap_fn_return.keys : k \notin ValidKeys
                          THEN policy_raised = "ValueError"
                          ELSE policy_raised = "none" /\ policy_ret = wrap_fn_return
             ELSE /\ policy_raised = "none"
                  /\ policy_ret = PyBool(current_is_parent)
                  /\ ~wrap_fn_called

\* The root model carries a false legacy flag and a predicate: the flag wins
C9_Witness ==
    /\ policy_called
    /\ current_is_parent
    /\ fsdp_wrap_attr = [has |-> TRUE, value |-> PyInt(0)]
    /\ fsdp_wrap_fn = "callable"
    /\ wrap_fn_return = PyDict({"sharding_strategy"})
    /\ policy_ret = PyBool(FALSE)
    /\ policy_raised = "none"

\* A submodule without the flag whose predicate returns an unrecognised key
C9_WitnessInvalidKeys ==
    /\ policy_called
    /\ ~current_is_parent
    /\ ~fsdp_wrap_attr.has
    /\ fsdp_wrap_fn = "callable"
    /\ wrap_fn_return = PyDict({"reshard_after_forward", "sharding_strategy"})
    /\ policy_raised = "ValueError"

====
